---- MODULE Spec2Model ----
(***************************************************************************)
(* Transaction text parser (scripts/parse_transaction_text.py) and the     *)
(* conversion of its records to log files (scripts/convert_raw_to_local.py *)
(* and convert_raw_transactions of app.py).                                *)
(*                                                                         *)
(* Python str values are TLA+ strings; a character is a string of length   *)
(* one.  Parsed values (the JSON tree) are records [t |-> kind, v |-> ..]: *)
(*   None  -> [t |-> "Null",   v |-> 0]                                    *)
(*   bool  -> [t |-> "Bool",   v |-> TRUE/FALSE]                           *)
(*   int   -> [t |-> "Int",    v |-> n]                                    *)
(*   float -> [t |-> "Float",  v |-> [m |-> mantissa, e |-> digits]]       *)
(*   str   -> [t |-> "Str",    v |-> "..."]                                *)
(*   list  -> [t |-> "Array",  v |-> << items >>]                          *)
(*   dict  -> [t |-> "Object", v |-> << <<key, value>>, ... >>]            *)
(* A dict is the sequence of its items in insertion order, keys unique.    *)
(* A finite float is the decimal m / 10^e it prints as (e = 0, or m not    *)
(* divisible by 10).                                                       *)
(***************************************************************************)
EXTENDS Integers, Sequences, FiniteSets, TLC

VARIABLES blob, pc, parts, idx, transactions, chunk, last, cidx, results, files

vars == <<blob, pc, parts, idx, transactions, chunk, last, cidx, results, files>>

----------------------------------------------------------------------------
(* Python str primitives *)

Ch(s, i) == SubSeq(s, i, i)

Slice(s, i, j) == SubSeq(s, i, j)

DigitChars == {"0", "1", "2", "3", "4", "5", "6", "7", "8", "9"}

LowerChars ==
  {"a", "b", "c", "d", "e", "f", "g", "h", "i", "j", "k", "l", "m",
   "n", "o", "p", "q", "r", "s", "t", "u", "v", "w", "x", "y", "z"}

ToLowerMap ==
  ("A" :> "a") @@ ("B" :> "b") @@ ("C" :> "c") @@ ("D" :> "d") @@
  ("E" :> "e") @@ ("F" :> "f") @@ ("G" :> "g") @@ ("H" :> "h") @@
  ("I" :> "i") @@ ("J" :> "j") @@ ("K" :> "k") @@ ("L" :> "l") @@
  ("M" :> "m") @@ ("N" :> "n") @@ ("O" :> "o") @@ ("P" :> "p") @@
  ("Q" :> "q") @@ ("R" :> "r") @@ ("S" :> "s") @@ ("T" :> "t") @@
  ("U" :> "u") @@ ("V" :> "v") @@ ("W" :> "w") @@ ("X" :> "x") @@
  ("Y" :> "y") @@ ("Z" :> "z")

UpperChars == DOMAIN ToLowerMap

\* \s of the re module and the characters str.strip() removes
SpaceChars == {" ", "\t", "\n", "\r"}

\* \w of the re module
WordChars == LowerChars \cup UpperChars \cup DigitChars \cup {"_"}

\* The character-wise operators split their subject in halves, so that
\* the evaluation depth stays logarithmic in its length.
Mid(s) == Len(s) \div 2

\* s.lower()
RECURSIVE Lower(_)
Lower(s) ==
  IF s = "" THEN ""
  ELSE IF Len(s) = 1 THEN (IF s \in UpperChars THEN ToLowerMap[s] ELSE s)
  ELSE Lower(Slice(s, 1, Mid(s))) \o Lower(Slice(s, Mid(s) + 1, Len(s)))

\* index of the first character of s, from index i on, that is not in set
\* (Len(s) + 1 if there is none)
FirstOutside(s, i, set) ==
  LET out == {j \in i..Len(s) : Ch(s, j) \notin set}
  IN IF out = {} THEN Len(s) + 1 ELSE CHOOSE j \in out : \A k \in out : j <= k

\* index of the last character of s that is not in set (0 if there is none)
LastOutside(s, set) ==
  LET out == {j \in 1..Len(s) : Ch(s, j) \notin set}
  IN IF out = {} THEN 0 ELSE CHOOSE j \in out : \A k \in out : j >= k

LStrip(s) == Slice(s, FirstOutside(s, 1, SpaceChars), Len(s))

RStrip(s) == Slice(s, 1, LastOutside(s, SpaceChars))

\* s.strip()
Strip(s) == LStrip(RStrip(s))

StartsWith(s, p) == Len(s) >= Len(p) /\ Slice(s, 1, Len(p)) = p

EndsWith(s, p) == Len(s) >= Len(p) /\ Slice(s, Len(s) - Len(p) + 1, Len(s)) = p

\* p occurs in s starting at index i
HasAt(s, i, p) == i >= 1 /\ i + Len(p) - 1 <= Len(s) /\ Slice(s, i, i + Len(p) - 1) = p

\* sub in s
Contains(s, sub) == \E i \in 1..(Len(s) - Len(sub) + 1) : HasAt(s, i, sub)

\* number of leading characters of s, from index i on, that lie in set
RunLen(s, i, set) == IF i > Len(s) THEN 0 ELSE FirstOutside(s, i, set) - i

----------------------------------------------------------------------------
(* Values *)

Null == [t |-> "Null", v |-> 0]
Bool(b) == [t |-> "Bool", v |-> b]
Int_(n) == [t |-> "Int", v |-> n]
Float(d) == [t |-> "Float", v |-> d]
Str(s) == [t |-> "Str", v |-> s]
Array(items) == [t |-> "Array", v |-> items]
Object(items) == [t |-> "Object", v |-> items]

\* dict primitives on the item sequence
DictKeys(d) == {d[i][1] : i \in 1..Len(d)}

DictGet(d, k) == d[CHOOSE i \in 1..Len(d) : d[i][1] = k][2]

DictSet_KeepFirst(d, k, val) == IF k \in DictKeys(d) THEN d ELSE Append(d, <<k, val>>)

\* d[k] = val: an existing key keeps its position, a new key goes last
DictSet(d, k, val) ==
  IF k \in DictKeys(d)
  THEN [i \in 1..Len(d) |-> IF d[i][1] = k THEN <<k, val>> ELSE d[i]]
  ELSE Append(d, <<k, val>>)

----------------------------------------------------------------------------
(* Python number conversions: int(str), float(str), str(int), str(float) *)

DigitVal ==
  ("0" :> 0) @@ ("1" :> 1) @@ ("2" :> 2) @@ ("3" :> 3) @@ ("4" :> 4) @@
  ("5" :> 5) @@ ("6" :> 6) @@ ("7" :> 7) @@ ("8" :> 8) @@ ("9" :> 9)

DigitStr == <<"0", "1", "2", "3", "4", "5", "6", "7", "8", "9">>

RECURSIVE Pow10(_)
Pow10(k) == IF k = 0 THEN 1 ELSE 10 * Pow10(k - 1)

Abs(n) == IF n < 0 THEN -n ELSE n

RECURSIVE RemoveUnderscores(_)
RemoveUnderscores(s) ==
  IF s = "" THEN ""
  ELSE IF Len(s) = 1 THEN (IF s = "_" THEN "" ELSE s)
  ELSE RemoveUnderscores(Slice(s, 1, Mid(s))) \o RemoveUnderscores(Slice(s, Mid(s) + 1, Len(s)))

\* digits, single underscores allowed between digits
IsDigitPart(s) ==
  /\ s # ""
  /\ Ch(s, 1) \in DigitChars
  /\ Ch(s, Len(s)) \in DigitChars
  /\ \A i \in 1..Len(s) : Ch(s, i) \in DigitChars \cup {"_"}
  /\ ~Contains(s, "__")

RECURSIVE DigitsValue(_)
DigitsValue(s) ==
  IF s = "" THEN 0
  ELSE 10 * DigitsValue(Slice(s, 1, Len(s) - 1)) + DigitVal[Ch(s, Len(s))]

HasSign(s) == s # "" /\ Ch(s, 1) \in {"+", "-"}

Unsigned(s) == IF HasSign(s) THEN Slice(s, 2, Len(s)) ELSE s

SignOf(s) == IF s # "" /\ Ch(s, 1) = "-" THEN -1 ELSE 1

\* int(s): [ok |-> FALSE] stands for ValueError
PyInt(s) ==
  LET body == Unsigned(Strip(s))
  IN IF IsDigitPart(body)
     THEN [ok |-> TRUE, n |-> SignOf(Strip(s)) * DigitsValue(RemoveUnderscores(body))]
     ELSE [ok |-> FALSE, n |-> 0]

RECURSIVE Normalise(_, _)
Normalise(m, e) ==
  IF m = 0 THEN [m |-> 0, e |-> 0]
  ELSE IF e > 0 /\ m % 10 = 0 THEN Normalise(m \div 10, e - 1)
  ELSE [m |-> m, e |-> e]

Fin(d) == [kind |-> "fin", d |-> d]
Inf == [kind |-> "inf", d |-> [m |-> 0, e |-> 0]]
NaN == [kind |-> "nan", d |-> [m |-> 0, e |-> 0]]
FloatValueError == [kind |-> "ValueError", d |-> [m |-> 0, e |-> 0]]

\* float(s) for decimal literals without exponent, and inf / nan
PyFloat(s) ==
  LET st == Strip(s)
      body == Unsigned(st)
      sign == SignOf(st)
      dot == RunLen(body, 1, DigitChars \cup {"_"})
      ip == Slice(body, 1, dot)
      fp == Slice(body, dot + 2, Len(body))
  IN IF Lower(body) \in {"inf", "infinity"} THEN Inf
     ELSE IF Lower(body) = "nan" THEN NaN
     ELSE IF dot = Len(body)
     THEN IF IsDigitPart(body)
          THEN Fin([m |-> sign * DigitsValue(RemoveUnderscores(body)), e |-> 0])
          ELSE FloatValueError
     ELSE IF /\ Ch(body, dot + 1) = "."
             /\ ip = "" \/ IsDigitPart(ip)
             /\ fp = "" \/ IsDigitPart(fp)
             /\ ip # "" \/ fp # ""
     THEN LET fd == RemoveUnderscores(fp)
          IN Fin(Normalise(sign * (DigitsValue(RemoveUnderscores(ip)) * Pow10(Len(fd))
                                    + DigitsValue(fd)),
                           Len(fd)))
     ELSE FloatValueError

RECURSIVE NatToStr(_)
NatToStr(n) ==
  IF n < 10 THEN DigitStr[n + 1] ELSE NatToStr(n \div 10) \o DigitStr[(n % 10) + 1]

\* str(n) of an int
IntToStr(n) == IF n < 0 THEN "-" \o NatToStr(-n) ELSE NatToStr(n)

RECURSIVE ZeroPad(_, _)
ZeroPad(s, width) == IF Len(s) >= width THEN s ELSE ZeroPad("0" \o s, width)

\* str(x) of a finite float in the range repr() prints positionally
FloatToStr(d) ==
  LET digits == ZeroPad(NatToStr(Abs(d.m)), d.e + 1)
      k == Len(digits) - d.e
  IN (IF d.m < 0 THEN "-" ELSE "")
     \o Slice(digits, 1, k) \o "."
     \o (IF d.e = 0 THEN "0" ELSE Slice(digits, k + 1, Len(digits)))

----------------------------------------------------------------------------
(* The regular expressions of the parser.  Every subject is stripped        *)
(* before it is matched, so $ only matches at the very end.                 *)

NoMatch == [ok |-> FALSE, group1 |-> "", group2 |-> ""]

\* re.match(r'^(\w+)\s*\[value=([^\]]+)\]$', value)
ValueMatch(value) ==
  LET n == Len(value)
      w == RunLen(value, 1, WordChars)
      b == w + RunLen(value, w + 1, SpaceChars) + 1
      g == b + Len("[value=")
  IN IF /\ w >= 1
        /\ HasAt(value, b, "[value=")
        /\ g <= n - 1
        /\ Ch(value, n) = "]"
        /\ \A i \in g..(n - 1) : Ch(value, i) # "]"
     THEN [ok |-> TRUE, group1 |-> Slice(value, 1, w), group2 |-> Slice(value, g, n - 1)]
     ELSE NoMatch

WrapperMatch_NoNestedBracket(name, value) ==
  LET n == Len(value)
      g == Len(name) + 2
  IN IF /\ StartsWith(value, name \o "[") /\ g <= n - 1 /\ Ch(value, n) = "]"
        /\ \A i \in g..(n - 1) : Ch(value, i) # "]"
     THEN [ok |-> TRUE, group1 |-> Slice(value, g, n - 1), group2 |-> ""]
     ELSE NoMatch

\* re.match(r'^<name>\[(.+)\]$', value, re.DOTALL)
WrapperMatch(name, value) ==
  LET n == Len(value)
      g == Len(name) + 2
  IN IF StartsWith(value, name \o "[") /\ g <= n - 1 /\ Ch(value, n) = "]"
     THEN [ok |-> TRUE, group1 |-> Slice(value, g, n - 1), group2 |-> ""]
     ELSE NoMatch

\* re.match(r'^(\w+)\[(.+)\]$', value, re.DOTALL)
NestedMatch(value) ==
  LET n == Len(value)
      w == RunLen(value, 1, WordChars)
  IN IF w >= 1 /\ HasAt(value, w + 1, "[") /\ w + 2 <= n - 1 /\ Ch(value, n) = "]"
     THEN [ok |-> TRUE, group1 |-> Slice(value, 1, w), group2 |-> Slice(value, w + 2, n - 1)]
     ELSE NoMatch

\* re.match(r'^\s*Transaction\[(.+)\]\s*$', text, re.DOTALL)
TransactionMatch(text) ==
  LET lead == RunLen(text, 1, SpaceChars)
      body == RStrip(Slice(text, lead + 1, Len(text)))
      n == Len(body)
      g == Len("Transaction[") + 1
  IN IF StartsWith(body, "Transaction[") /\ g <= n - 1 /\ Ch(body, n) = "]"
     THEN [ok |-> TRUE, group1 |-> Slice(body, g, n - 1), group2 |-> ""]
     ELSE NoMatch

----------------------------------------------------------------------------------------------------------------------------------------------------
(* The scanning loops of parse_fields_from_content and parse_array_items.  *)
(* parse_value_recursive is a pure function of the text it is given, so    *)
(* the loops collect that text (the stripped field name and value, the     *)
(* stripped item) and the callers below apply parse_value_recursive to it  *)
(* in the same order.                                                      *)

\* if field_name: fields[field_name] = parse_value_recursive(current_value.strip())
StoreField(st) ==
  LET field_name == Strip(st.current_field)
  IN IF field_name # ""
     THEN Append(st.fields, <<field_name, Strip(st.current_value)>>)
     ELSE st.fields

\* one iteration of the while loop of parse_fields_from_content
FieldsStep(st, char) ==
  LET add == IF st.in_field
             THEN [st EXCEPT !.current_field = @ \o char]
             ELSE [st EXCEPT !.current_value = @ \o char]
  IN IF char \in {"[", "{"} THEN [add EXCEPT !.bracket_depth = @ + 1]
     ELSE IF char \in {"]", "}"} THEN [add EXCEPT !.bracket_depth = @ - 1]
     ELSE IF char = "=" /\ st.bracket_depth = 0 /\ st.in_field
     THEN [st EXCEPT !.in_field = FALSE]
     ELSE IF char = "," /\ st.bracket_depth = 0
     THEN [st EXCEPT !.fields = StoreField(st), !.current_field = "",
                     !.current_value = "", !.in_field = TRUE]
     ELSE add

\* the while loop over content[lo..hi], started in loop state st
RECURSIVE FieldsLoop(_, _, _, _)
FieldsLoop(content, lo, hi, st) ==
  IF lo > hi THEN st
  ELSE IF lo = hi THEN FieldsStep(st, Ch(content, lo))
  ELSE LET mid == (lo + hi) \div 2
           half == FieldsLoop(content, lo, mid, st)
       IN IF half.bracket_depth \in Int THEN FieldsLoop(content, mid + 1, hi, half) ELSE st

\* the <<field_name, value text>> pairs in the order the loop stores them
ScanFields(content) ==
  StoreField(FieldsLoop(content, 1, Len(content),
    [fields |-> <<>>, current_field |-> "", current_value |-> "",
     in_field |-> TRUE, bracket_depth |-> 0]))

\* if item: items.append(parse_value_recursive(item))
StoreItem(st) ==
  LET item == Strip(st.current_item)
  IN IF item # "" THEN Append(st.items, item) ELSE st.items

\* one iteration of the while loop of parse_array_items
ItemsStep(st, char) ==
  IF char \in {"[", "{"}
  THEN [st EXCEPT !.bracket_depth = @ + 1, !.current_item = @ \o char]
  ELSE IF char \in {"]", "}"}
  THEN [st EXCEPT !.bracket_depth = @ - 1, !.current_item = @ \o char]
  ELSE IF char = "," /\ st.bracket_depth = 0
  THEN [st EXCEPT !.items = StoreItem(st), !.current_item = ""]
  ELSE [st EXCEPT !.current_item = @ \o char]

\* the while loop over content[lo..hi], started in loop state st
RECURSIVE ItemsLoop(_, _, _, _)
ItemsLoop(content, lo, hi, st) ==
  IF lo > hi THEN st
  ELSE IF lo = hi THEN ItemsStep(st, Ch(content, lo))
  ELSE LET mid == (lo + hi) \div 2
           half == ItemsLoop(content, lo, mid, st)
       IN IF half.bracket_depth \in Int THEN ItemsLoop(content, mid + 1, hi, half) ELSE st

\* the item texts in the order the loop appends them
ScanItems(content) ==
  StoreItem(ItemsLoop(content, 1, Len(content),
    [items |-> <<>>, current_item |-> "", bracket_depth |-> 0]))

\* the try block: float(value) if '.' in value else int(value)
ParseNumber(value) ==
  IF Contains(value, ".")
  THEN LET f == PyFloat(value)
       IN IF f.kind = "fin" THEN Float(f.d) ELSE Str(value)
  ELSE LET n == PyInt(value)
       IN IF n.ok THEN Int_(n.n) ELSE Str(value)

----------------------------------------------------------------------------
(* parse_value_recursive, parse_fields_from_content, parse_array_items *)

RECURSIVE parse_value_recursive(_)
RECURSIVE parse_fields_from_content(_)
RECURSIVE parse_array_items(_)
RECURSIVE AssignFields(_, _)

parse_map_items(content) == parse_fields_from_content(content)

parse_value_recursive(value0) ==
  LET value == Strip(value0)
      value_match == ValueMatch(value)
      optional_match == WrapperMatch("Optional", value)
      nullable_match == WrapperMatch("JsonNullable", value)
      nested_match == NestedMatch(value)
      parsed_fields == IF nested_match.ok
                       THEN parse_fields_from_content(nested_match.group2)
                       ELSE <<>>
  IN IF value = "" THEN Null
     ELSE IF Lower(value) \in {"null", "none"} THEN Null
     ELSE IF Lower(value) = "true" THEN Bool(TRUE)
     ELSE IF Lower(value) = "false" THEN Bool(FALSE)
     ELSE IF value = "JsonNullable[null]" THEN Null
     ELSE IF value = "Optional[null]" THEN Null
     ELSE IF value = "[]" THEN Array(<<>>)
     ELSE IF value_match.ok THEN Str(Strip(value_match.group2))
     ELSE IF optional_match.ok
     THEN IF Lower(optional_match.group1) = "null" THEN Null
          ELSE parse_value_recursive(optional_match.group1)
     ELSE IF nullable_match.ok
     THEN IF Lower(nullable_match.group1) = "null" THEN Null
          ELSE parse_value_recursive(nullable_match.group1)
     ELSE IF nested_match.ok /\ Len(parsed_fields) > 0
     THEN Object(DictSet(parsed_fields, "_type", Str(nested_match.group1)))
     ELSE IF StartsWith(value, "[") /\ EndsWith(value, "]")
     THEN LET inner == Strip(Slice(value, 2, Len(value) - 1))
          IN IF inner = "" THEN Array(<<>>) ELSE Array(parse_array_items(inner))
     ELSE IF StartsWith(value, "{") /\ EndsWith(value, "}")
     THEN LET inner == Strip(Slice(value, 2, Len(value) - 1))
          IN IF inner = "" THEN Object(<<>>) ELSE Object(parse_map_items(inner))
     ELSE ParseNumber(value)

\* fields[field_name] = parse_value_recursive(value text), pair by pair
AssignFields(pairs, fields) ==
  IF Len(pairs) = 0 THEN fields
  ELSE AssignFields(Tail(pairs),
                    DictSet(fields, pairs[1][1], parse_value_recursive(pairs[1][2])))

parse_fields_from_content(content) == AssignFields(ScanFields(content), <<>>)

parse_array_items(content) ==
  LET items == ScanItems(content)
  IN [i \in 1..Len(items) |-> parse_value_recursive(items[i])]

----
(* remove_nulls *)

Keeps_NullOnly(val) == val.t # "Null"

Keeps_NotEmpty(val) == val.t \notin {"Object", "Array"} \/ Len(val.v) > 0

\* the filter of the dict comprehension:
\* v is not None and (not isinstance(v, dict) or v) and (not isinstance(v, list) or v)
Keeps(val) ==
  /\ val.t # "Null"
  /\ val.t # "Object" \/ Len(val.v) > 0
  /\ val.t # "Array" \/ Len(val.v) > 0

RECURSIVE remove_nulls(_)
remove_nulls(obj) ==
  IF obj.t = "Object"
  THEN LET kept == SelectSeq(obj.v, LAMBDA it : Keeps(it[2]))
       IN Object([i \in 1..Len(kept) |-> <<kept[i][1], remove_nulls(kept[i][2])>>])
  ELSE IF obj.t = "Array"
  THEN LET kept == SelectSeq(obj.v, LAMBDA item : item.t # "Null")
       IN Array([i \in 1..Len(kept) |-> remove_nulls(kept[i])])
  ELSE obj

----------------------------------------------------------------------------
(* str() and repr() of a parsed value *)

RECURSIVE Escape(_, _)
Escape(s, quote) ==
  IF s = "" THEN ""
  ELSE IF Len(s) = 1
  THEN CASE s = "\\" -> "\\\\"
         [] s = quote -> "\\" \o quote
         [] s = "\n" -> "\\n"
         [] s = "\t" -> "\\t"
         [] s = "\r" -> "\\r"
         [] OTHER -> s
  ELSE Escape(Slice(s, 1, Mid(s)), quote) \o Escape(Slice(s, Mid(s) + 1, Len(s)), quote)

\* repr(s) of a str: double quotes only when s has a ' and no "
ReprStr(s) ==
  IF Contains(s, "'") /\ ~Contains(s, "\"")
  THEN "\"" \o Escape(s, "") \o "\""
  ELSE "'" \o Escape(s, "'") \o "'"

RECURSIVE Join(_, _)
Join(strs, sep) ==
  IF Len(strs) = 0 THEN ""
  ELSE IF Len(strs) = 1 THEN strs[1]
  ELSE strs[1] \o sep \o Join(Tail(strs), sep)

RECURSIVE Repr(_)
Repr(val) ==
  CASE val.t = "Null" -> "None"
    [] val.t = "Bool" -> IF val.v THEN "True" ELSE "False"
    [] val.t = "Int" -> IntToStr(val.v)
    [] val.t = "Float" -> FloatToStr(val.v)
    [] val.t = "Str" -> ReprStr(val.v)
    [] val.t = "Array" ->
         "[" \o Join([i \in 1..Len(val.v) |-> Repr(val.v[i])], ", ") \o "]"
    [] val.t = "Object" ->
         "{" \o Join([i \in 1..Len(val.v) |->
                        ReprStr(val.v[i][1]) \o ": " \o Repr(val.v[i][2])], ", ") \o "}"

\* str(val)
PyStr(val) == IF val.t = "Str" THEN val.v ELSE Repr(val)

----------------------------------------------------------------------------
(* normalize_status, convert_amount *)

normalize_status_PendingFirst(status) ==
  LET status_str == Lower(PyStr(status))
  IN IF status.t = "Null" THEN "unknown"
     ELSE IF Contains(status_str, "succeeded") \/ Contains(status_str, "success")
     THEN "success"
     ELSE IF Contains(status_str, "pending") THEN "pending"
     ELSE IF Contains(status_str, "failed") \/ Contains(status_str, "failure")
     THEN "failed"
     ELSE IF Contains(status_str, "cancelled") \/ Contains(status_str, "canceled")
     THEN "cancelled"
     ELSE IF Contains(status_str, "refunded") THEN "refunded"
     ELSE IF Contains(status_str, "voided") THEN "voided"
     ELSE PyStr(status)

normalize_status(status) ==
  LET status_str == Lower(PyStr(status))
  IN IF status.t = "Null" THEN "unknown"
     ELSE IF Contains(status_str, "succeeded") \/ Contains(status_str, "success")
     THEN "success"
     ELSE IF Contains(status_str, "failed") \/ Contains(status_str, "failure")
     THEN "failed"
     ELSE IF Contains(status_str, "pending") THEN "pending"
     ELSE IF Contains(status_str, "cancelled") \/ Contains(status_str, "canceled")
     THEN "cancelled"
     ELSE IF Contains(status_str, "refunded") THEN "refunded"
     ELSE IF Contains(status_str, "voided") THEN "voided"
     ELSE PyStr(status)

\* float(amount); list and dict raise TypeError
ToFloat(amount) ==
  CASE amount.t = "Int" -> Fin([m |-> amount.v, e |-> 0])
    [] amount.t = "Float" -> Fin(amount.v)
    [] amount.t = "Bool" -> Fin([m |-> IF amount.v THEN 1 ELSE 0, e |-> 0])
    [] amount.t = "Str" -> PyFloat(amount.v)
    [] OTHER -> [kind |-> "TypeError", d |-> [m |-> 0, e |-> 0]]

Zero == [m |-> 0, e |-> 0]

Raise(exc) == [t |-> "Raise", v |-> exc]

IsWholeCents_NoAbs(d) == d.e = 0 /\ d.m >= 100

\* value == int(value) and abs(value) >= 100, for a finite value
IsWholeCents(d) == d.e = 0 /\ Abs(d.m) >= 100

\* int(nan) raises ValueError, which is caught; int(inf) raises
\* OverflowError, which is not
convert_amount(amount) ==
  LET value == ToFloat(amount)
  IN IF amount.t = "Null" THEN Float(Zero)
     ELSE IF value.kind \in {"ValueError", "TypeError"} THEN Float(Zero)
     ELSE IF value.kind = "nan" THEN Float(Zero)
     ELSE IF value.kind = "inf" THEN Raise("OverflowError")
     ELSE IF IsWholeCents(value.d) THEN Float(Normalise(value.d.m, value.d.e + 2))
     ELSE Float(value.d)

----------------------------------------------------------------------------
(* parse_transaction_text *)

Record(fields) == [t |-> "Record", v |-> fields]

\* the keys of the result dict
ResultKeys(json_full) ==
  LET keys == DictKeys(json_full)
  IN {"raw_text", "json_full", "json_compact"}
     \cup (IF "id" \in keys THEN {"transaction_id"} ELSE {})
     \cup (IF "createdAt" \in keys \/ "updatedAt" \in keys THEN {"timestamp"} ELSE {})
     \cup (IF "status" \in keys THEN {"status"} ELSE {})
     \cup (IF "amount" \in keys THEN {"amount"} ELSE {})
     \cup (IF "currency" \in keys THEN {"currency"} ELSE {})

Timestamp_UpdatedFirst(json_full) ==
  IF "updatedAt" \in DictKeys(json_full) THEN DictGet(json_full, "updatedAt")
  ELSE DictGet(json_full, "createdAt")

\* result['timestamp']
Timestamp(json_full) ==
  IF "createdAt" \in DictKeys(json_full) THEN DictGet(json_full, "createdAt")
  ELSE DictGet(json_full, "updatedAt")

parse_transaction_text(text0) ==
  LET text == Strip(text0)
      match == TransactionMatch(text)
      json_full == parse_fields_from_content(match.group1)
      amount == convert_amount(DictGet(json_full, "amount"))
  IN IF text0 = "" \/ text = "" THEN Null
     ELSE IF ~match.ok THEN Null
     ELSE IF Len(json_full) = 0 THEN Null
     ELSE IF "amount" \in DictKeys(json_full) /\ amount.t = "Raise" THEN amount
     ELSE Record([k \in ResultKeys(json_full) |->
            CASE k = "transaction_id" -> DictGet(json_full, "id")
              [] k = "timestamp" -> Timestamp(json_full)
              [] k = "status" -> Str(normalize_status(DictGet(json_full, "status")))
              [] k = "amount" -> amount
              [] k = "currency" -> DictGet(json_full, "currency")
              [] k = "raw_text" -> Str(text)
              [] k = "json_full" -> Object(json_full)
              [] k = "json_compact" -> remove_nulls(Object(json_full))])

----------------------------------------------------------------------------
(* parse_multiple_transactions *)

\* the k-th smallest element of a set of integers
Kth(set, k) == CHOOSE p \in set : Cardinality({q \in set : q < p}) = k - 1

ReSplit_ConsumeLiteral(text) ==
  LET cuts == {i \in 1..Len(text) : HasAt(text, i, "Transaction[")}
      n == Cardinality(cuts)
  IN [k \in 1..(n + 1) |->
        Slice(text,
              IF k = 1 THEN 1 ELSE Kth(cuts, k - 1) + Len("Transaction["),
              IF k = n + 1 THEN Len(text) ELSE Kth(cuts, k) - 1)]

\* re.split(r'(?=Transaction\[)', text): the text is cut in front of every
\* occurrence of the literal, also in front of one at its very start
ReSplit(text) ==
  LET cuts == {i \in 1..Len(text) : HasAt(text, i, "Transaction[")}
      n == Cardinality(cuts)
  IN [k \in 1..(n + 1) |->
        Slice(text,
              IF k = 1 THEN 1 ELSE Kth(cuts, k - 1),
              IF k = n + 1 THEN Len(text) ELSE Kth(cuts, k) - 1)]

----------------------------------------------------------------------------
(* The conversion of parsed records to log files: convert_raw_to_local.py  *)
(* (the standalone script) and convert_raw_transactions of app.py (the     *)
(* conversion on refresh).  A record is a function from its keys to their  *)
(* values, as parse_transaction_text builds it.                            *)

AllDigits(s) == s # "" /\ \A i \in 1..Len(s) : Ch(s, i) \in DigitChars

\* s is a run of lo to hi digits
DigitRun(s, lo, hi) == AllDigits(s) /\ Len(s) \in lo..hi

\* s.split(sep) for a separator of one character
CutParts(s, sep) ==
  LET cuts == {i \in 1..Len(s) : Ch(s, i) = sep}
      n == Cardinality(cuts)
  IN [k \in 1..(n + 1) |->
        Slice(s,
              IF k = 1 THEN 1 ELSE Kth(cuts, k - 1) + 1,
              IF k = n + 1 THEN Len(s) ELSE Kth(cuts, k) - 1)]

\* s.replace(old, new)
RECURSIVE Replace(_, _, _)
Replace(s, old, new) ==
  LET at == {i \in 1..Len(s) : HasAt(s, i, old)}
      i == CHOOSE j \in at : \A k \in at : j <= k
  IN IF at = {} THEN s
     ELSE Slice(s, 1, i - 1) \o new \o Replace(Slice(s, i + Len(old), Len(s)), old, new)

NoDate == [ok |-> FALSE, y |-> 0, m |-> 0, d |-> 0]

IsLeap(y) == y % 4 = 0 /\ (y % 100 # 0 \/ y % 400 = 0)

DaysIn(y, m) ==
  IF m = 2 THEN (IF IsLeap(y) THEN 29 ELSE 28)
  ELSE IF m \in {4, 6, 9, 11} THEN 30 ELSE 31

\* datetime(y, m, d, ...): ValueError for a date the calendar does not have
MakeDate(y, m, d) ==
  IF y >= 1 /\ m \in 1..12 /\ d \in 1..DaysIn(y, m)
  THEN [ok |-> TRUE, y |-> y, m |-> m, d |-> d]
  ELSE NoDate

\* strptime of '%Y-%m-%d'
StrpDate(s) ==
  LET ps == CutParts(s, "-")
  IN IF Len(ps) = 3 /\ DigitRun(ps[1], 4, 4) /\ DigitRun(ps[2], 1, 2) /\ DigitRun(ps[3], 1, 2)
     THEN MakeDate(DigitsValue(ps[1]), DigitsValue(ps[2]), DigitsValue(ps[3]))
     ELSE NoDate

\* strptime of '%H:%M:%S' accepts s and datetime() accepts the time
StrpTimeOk(s) ==
  LET ps == CutParts(s, ":")
  IN /\ Len(ps) = 3
     /\ \A i \in 1..3 : DigitRun(ps[i], 1, 2)
     /\ DigitsValue(ps[1]) <= 23 /\ DigitsValue(ps[2]) <= 59 /\ DigitsValue(ps[3]) <= 59

\* datetime.strptime(s, '%Y-%m-%d' + sep + '%H:%M:%S' [+ '.%f'] [+ 'Z'])
StrpDateTime(s, sep, frac, zed) ==
  LET at == FirstOutside(s, 1, DigitChars \cup {"-"})
      \* a blank in the format matches any run of whitespace
      rest == Slice(s, IF sep = " " THEN FirstOutside(s, at, SpaceChars) ELSE at + 1, Len(s))
      body == IF zed THEN Slice(rest, 1, Len(rest) - 1) ELSE rest
      ps == CutParts(body, ".")
  IN IF /\ at <= Len(s)
        /\ IF sep = " " THEN Ch(s, at) \in SpaceChars ELSE Ch(s, at) = sep
        /\ zed => EndsWith(rest, "Z")
        /\ IF frac THEN Len(ps) = 2 /\ DigitRun(ps[2], 1, 6) ELSE Len(ps) = 1
        /\ StrpTimeOk(ps[1])
     THEN StrpDate(Slice(s, 1, at - 1))
     ELSE NoDate

\* the UTC offset +HH:MM or -HH:MM of an ISO time
IsoOffsetOk(s) ==
  LET ps == CutParts(s, ":")
  IN /\ Len(ps) = 2 /\ DigitRun(ps[1], 2, 2) /\ DigitRun(ps[2], 2, 2)
     /\ DigitsValue(ps[1]) <= 23 /\ DigitsValue(ps[2]) <= 59

\* the ISO time HH[:MM[:SS[.f...]]] with an optional offset
IsoTimeOk(s) ==
  LET signs == {i \in 1..Len(s) : Ch(s, i) \in {"+", "-"}}
      cut == IF signs = {} THEN Len(s) + 1 ELSE CHOOSE i \in signs : \A j \in signs : i <= j
      clock == CutParts(Slice(s, 1, cut - 1), ".")
      hms == CutParts(clock[1], ":")
      limit == <<23, 59, 59>>
  IN /\ signs # {} => IsoOffsetOk(Slice(s, cut + 1, Len(s)))
     /\ Len(clock) \in 1..2
     /\ Len(clock) = 2 => Len(hms) = 3 /\ AllDigits(clock[2])
     /\ Len(hms) \in 1..3
     /\ \A i \in 1..Len(hms) : DigitRun(hms[i], 2, 2) /\ DigitsValue(hms[i]) <= limit[i]

\* datetime.fromisoformat(s) for the extended forms YYYY-MM-DD and
\* YYYY-MM-DD<any character>HH[:MM[:SS[.f...]]][+HH:MM]
FromIsoFormat(s) ==
  LET ps == CutParts(Slice(s, 1, 10), "-")
  IN IF /\ Len(s) >= 10 /\ Len(s) # 11
        /\ Len(ps) = 3 /\ DigitRun(ps[1], 4, 4) /\ DigitRun(ps[2], 2, 2) /\ DigitRun(ps[3], 2, 2)
        /\ Len(s) > 11 => IsoTimeOk(Slice(s, 12, Len(s)))
     THEN MakeDate(DigitsValue(ps[1]), DigitsValue(ps[2]), DigitsValue(ps[3]))
     ELSE NoDate

\* the first of the dates that is one, else NoDate
FirstDate(dates) ==
  LET ok == {i \in 1..Len(dates) : dates[i].ok}
  IN IF ok = {} THEN NoDate ELSE dates[CHOOSE i \in ok : \A j \in ok : i <= j]

\* parse_timestamp of the script; a timestamp that is not a str makes
\* strptime raise TypeError
parse_timestamp(timestamp) ==
  IF timestamp.t # "Str" THEN NoDate
  ELSE LET s == timestamp.v
       IN FirstDate(<< StrpDateTime(s, "T", FALSE, FALSE),
                       StrpDateTime(s, "T", TRUE, FALSE),
                       StrpDateTime(s, "T", TRUE, TRUE),
                       StrpDateTime(s, " ", FALSE, FALSE),
                       StrpDate(s),
                       FromIsoFormat(Replace(s, "Z", "+00:00")) >>)

\* the timestamp parsing of convert_raw_transactions; a timestamp that is
\* not a str has no replace(), and the bare except skips the record
AppParseTimestamp(timestamp) ==
  IF timestamp.t # "Str" THEN NoDate
  ELSE LET s == timestamp.v
           bare == Replace(Replace(s, "+00:00", ""), "Z", "")
       IN FirstDate(<< StrpDateTime(bare, "T", TRUE, FALSE),
                       StrpDateTime(bare, "T", TRUE, FALSE),
                       StrpDateTime(bare, "T", FALSE, FALSE),
                       StrpDate(bare),
                       FromIsoFormat(Replace(s, "Z", "+00:00")) >>)

\* the values hash(timestamp) % 100000 takes for a str, a fractional float
\* and None (two of them); the hash of a str differs from process to process
HashValues == {7, 99999}

\* hash(timestamp) % 100000, with h the value when the process decides it;
\* list and dict raise TypeError
HashMod(timestamp, h) ==
  CASE timestamp.t = "Int" ->
         [ok |-> TRUE, n |-> (IF timestamp.v = -1 THEN -2 ELSE timestamp.v) % 100000]
    [] timestamp.t = "Bool" -> [ok |-> TRUE, n |-> IF timestamp.v THEN 1 ELSE 0]
    [] timestamp.t = "Str" /\ timestamp.v = "" -> [ok |-> TRUE, n |-> 0]
    [] timestamp.t = "Float" /\ timestamp.v.e = 0 ->
         [ok |-> TRUE, n |-> (IF timestamp.v.m = -1 THEN -2 ELSE timestamp.v.m) % 100000]
    [] timestamp.t \in {"Array", "Object"} -> [ok |-> FALSE, n |-> 0]
    [] OTHER -> [ok |-> TRUE, n |-> h]

\* the first of the id fields that the transaction has, stringified, else
\* f"TXN-{hash(timestamp) % 100000:05d}"
extract_transaction_id(transaction, h) ==
  LET names == <<"transaction_id", "id", "transactionId", "txn_id">>
      has == {i \in 1..Len(names) : names[i] \in DOMAIN transaction}
      hm == HashMod(transaction.timestamp, h)
  IN IF has # {}
     THEN Str(PyStr(transaction[names[CHOOSE i \in has : \A j \in has : i <= j]]))
     ELSE IF hm.ok THEN Str("TXN-" \o ZeroPad(NatToStr(hm.n), 5))
     ELSE Raise("TypeError")

\* d[k] = val for a record
WithKey(transaction, k, val) ==
  [key \in DOMAIN transaction \cup {k} |-> IF key = k THEN val ELSE transaction[key]]

\* the transaction with its required fields, or the exception raised
ensure_required_fields(transaction, h) ==
  IF "timestamp" \notin DOMAIN transaction THEN Raise("ValueError")
  ELSE LET id == extract_transaction_id(transaction, h)
           with_id == IF "transaction_id" \notin DOMAIN transaction
                      THEN WithKey(transaction, "transaction_id", id)
                      ELSE transaction
       IN IF "transaction_id" \notin DOMAIN transaction /\ id.t = "Raise" THEN id
          ELSE IF "status" \notin DOMAIN with_id
          THEN Record(WithKey(with_id, "status", Str("unknown")))
          ELSE Record(with_id)

\* "".join(c if c.isalnum() or c in '-_' else '_' for c in s)
RECURSIVE Sanitize(_)
Sanitize(s) ==
  IF s = "" THEN ""
  ELSE IF Len(s) = 1 THEN (IF s \in WordChars \cup {"-"} THEN s ELSE "_")
  ELSE Sanitize(Slice(s, 1, Mid(s))) \o Sanitize(Slice(s, Mid(s) + 1, Len(s)))

\* logs/YYYY/MM/DD/transaction_<safe id>.json
FilePath(dt, transaction_id) ==
  "logs/" \o ZeroPad(NatToStr(dt.y), 4) \o "/" \o ZeroPad(NatToStr(dt.m), 2)
  \o "/" \o ZeroPad(NatToStr(dt.d), 2)
  \o "/transaction_" \o Sanitize(PyStr(transaction_id)) \o ".json"

Saved(path, transaction) == [t |-> "Saved", path |-> path, v |-> transaction]

Skipped == [t |-> "Skipped", path |-> "", v |-> <<>>]

\* convert_transaction as main of the script calls it: the file written, or
\* Skipped when it returns None or raises
convert_transaction(transaction, h) ==
  LET ensured == ensure_required_fields(transaction, h)
      dt == parse_timestamp(ensured.v.timestamp)
  IN IF ensured.t = "Raise" THEN Skipped
     ELSE IF ~dt.ok THEN Skipped
     ELSE Saved(FilePath(dt, ensured.v.transaction_id), ensured.v)

\* the body of the for loop of convert_raw_transactions
AppConvert(transaction) ==
  LET dt == AppParseTimestamp(transaction.timestamp)
  IN IF "timestamp" \notin DOMAIN transaction THEN Skipped
     ELSE IF "transaction_id" \notin DOMAIN transaction THEN Skipped
     ELSE IF ~dt.ok THEN Skipped
     ELSE Saved(FilePath(dt, transaction.transaction_id), transaction)

----------------------------------------------------------------------------
(* Inputs *)

\* fields per chunk, chunks per blob, and levels of nesting in a value
MaxFields == 2
MaxChunks == 2
MaxNest == 3

\* field segments that may stand first in a chunk
FirstSegs ==
  { "id=X1", "id=7", "id=null", "id=[a]",
    "createdAt=2025-12-16T20:23:36Z", "createdAt=null", "createdAt=20251216",
    "updatedAt=2025-12-17", "updatedAt=1.5",
    "currency=CAD", "currency=840", "currency={c=CAD}", "currency=true",
    "status=TransactionStatus [value=authorization_succeeded]",
    "status=refunded_partially", "status=weird", "status=Weird", "status=FAILED",
    "status=pending_failure", "status=voided_refunded", "status=canceled",
    "status=cancelled_pending", "status=null", "status=true", "status=[Success]",
    "status={s=voided}", "status=S[x=1]", "status=12.50",
    "amount=1591", "amount=100", "amount=99", "amount=50", "amount=-1591",
    "amount=-99", "amount=0", "amount=15.5", "amount=100.0", "amount=-250.00",
    "amount=99.99", "amount=null", "amount=abc", "amount=Money [value=1591]",
    "amount=nan", "amount=inf", "amount=-Infinity", "amount=true", "amount=[100]",
    "amount={a=100}", "amount=", "amount",
    "a=null", "b={x=null}", "b={x=null, y=1}", "c=[1, null, {y=null}, []]",
    "c=[null]", "c=[]", "d=B[e=null]", "d=B[_type=t]", "e={}", "e=Optional[null]",
    "e=Optional[JsonNullable[CA]]", "f=[a,,b]", "=1", "", " ",
    "d=B[value=x]", "d=B  [value=x]", "d=B [value=null]", "d=B [value=5]",
    "d=B [value= true ]", "d=B[_type=t, k=1]", "e={_type=x}", "_type=x",
    "f=[1,[2,3],4]", "f=[a,{x=1,y=2},]", "f=[,]", "f=[ a , b ]", "f=[[],{}]",
    "createdAt=2025-12-16 20:23:36", "createdAt=2025-13-01", "createdAt=[2025]",
    "updatedAt=2024-02-29T20:23:36.123Z", "updatedAt=2025-1-5" }

\* field segments that may follow
NextSegs ==
  { "id=X/2", "createdAt=C", "updatedAt=U", "amount=250", "amount=inf",
    "status=ok", "a=null", "b={x=null}", "" }

\* value literals nested n levels deep
RECURSIVE Nested(_)
Nested(n) ==
  IF n = 0 THEN {"1", "null"}
  ELSE UNION {{"[" \o v \o "]", "{k=" \o v \o "}", "T[k=" \o v \o "]", "Optional[" \o v \o "]"}
              : v \in Nested(n - 1)}

NestedSegs == {"n=" \o v : v \in UNION {Nested(n) : n \in 1..MaxNest}}

\* stacks of n Optional/JsonNullable wrappers around null or an integer
RECURSIVE WrapperStacks(_)
WrapperStacks(n) ==
  IF n = 0 THEN {"null", "NULL", "Null", "5", "-12", "007"}
  ELSE UNION {{"Optional[" \o v \o "]", "JsonNullable[" \o v \o "]"}
              : v \in WrapperStacks(n - 1)}

WrapperSegs == {"w=" \o v : v \in UNION {WrapperStacks(n) : n \in 1..MaxNest}}

\* the contents of a chunk: up to n field segments joined by ", "
RECURSIVE Contents(_)
Contents(n) ==
  IF n = 1 THEN FirstSegs \cup NestedSegs \cup WrapperSegs
  ELSE Contents(n - 1)
       \cup {c \o ", " \o g : c \in (Contents(n - 1) \ (NestedSegs \cup WrapperSegs)),
                                g \in NextSegs}

WellFormed == {"Transaction[" \o c \o "]" : c \in Contents(MaxFields)}

Malformed ==
  { "", " ", "junk", "Transaction", "Transaction[", "Transaction[]", "Transaction[id=1",
    "Transaction[id=1]x", "transaction[id=1]", "Transaction [id=1]", "Transaction[id=1]]",
    " Transaction[id=1] \n", "{id=1}", "[id=1]", "Transaction[id=1] Transaction[",
    "Transaction(id=1)" }

\* the chunks that multi-record blobs are made of
BatchChunks ==
  { "Transaction[id=1]", "Transaction[amount=inf]", "Transaction[=1]",
    "Transaction[a=Transaction[id=3]]", "Transaction[id=2",
    "Transaction[createdAt=2025-12-17]" }

Leads == {"", " ", "junk "}

Seps == {"", "\n\n"}

RECURSIVE Batches(_)
Batches(n) ==
  IF n = 1 THEN BatchChunks
  ELSE Batches(n - 1) \cup {b \o sep \o c : b \in Batches(n - 1), sep \in Seps, c \in BatchChunks}

Blobs ==
  WellFormed \cup Malformed \cup {l \o b : l \in Leads, b \in Batches(MaxChunks)}

----------------------------------------------------------------------------
(* State machine *)

NotCalled == [t |-> "NotCalled", v |-> 0]

Init ==
  /\ blob \in Blobs
  /\ pc = "start"
  /\ parts = <<>>
  /\ idx = 0
  /\ transactions = <<>>
  /\ chunk = ""
  /\ last = NotCalled
  /\ cidx = 0
  /\ results = <<>>
  /\ files = <<>>

\* parse_transaction_text called on one record (main; app.py load of a raw file)
ParseSingle ==
  /\ pc = "start"
  /\ chunk' = blob
  /\ last' = parse_transaction_text(blob)
  /\ pc' = IF last'.t = "Raise" THEN "raised" ELSE "single"
  /\ UNCHANGED <<blob, parts, idx, transactions, cidx, results, files>>

\* parse_multiple_transactions: transactions = [], parts = re.split(...)
Split ==
  /\ pc = "start"
  /\ parts' = ReSplit(blob)
  /\ idx' = 1
  /\ transactions' = <<>>
  /\ pc' = "loop"
  /\ UNCHANGED <<blob, chunk, last, cidx, results, files>>

\* for part in parts: part = part.strip(); if not part: continue
SkipEmpty ==
  /\ pc = "loop"
  /\ idx <= Len(parts)
  /\ Strip(parts[idx]) = ""
  /\ idx' = idx + 1
  /\ UNCHANGED <<blob, pc, parts, transactions, chunk, last, cidx, results, files>>

\* parsed = parse_transaction_text(part); if parsed: transactions.append(parsed)
ParsePart ==
  /\ pc = "loop"
  /\ idx <= Len(parts)
  /\ Strip(parts[idx]) # ""
  /\ chunk' = Strip(parts[idx])
  /\ last' = parse_transaction_text(chunk')
  /\ IF last'.t = "Raise"
     THEN pc' = "raised" /\ UNCHANGED <<idx, transactions>>
     ELSE /\ pc' = pc
          /\ idx' = idx + 1
          /\ transactions' = IF last'.t = "Record"
                             THEN Append(transactions, last'.v)
                             ELSE transactions
  /\ UNCHANGED <<blob, parts, cidx, results, files>>

\* return transactions
Return ==
  /\ pc = "loop"
  /\ idx > Len(parts)
  /\ pc' = "done"
  /\ UNCHANGED <<blob, parts, idx, transactions, chunk, last, cidx, results, files>>

\* the script: load_raw_data reads the text file and load_text_data parses
\* it, raising when there is no record.  Both callers strip the content
\* of the file first, which leaves the parsed records as they are, as every
\* part is stripped again.
LoadScript ==
  /\ pc = "done"
  /\ Strip(blob) # ""
  /\ pc' = IF Len(transactions) = 0 THEN "failed" ELSE "script"
  /\ cidx' = 1
  /\ UNCHANGED <<blob, parts, idx, transactions, chunk, last, results, files>>

\* for i, transaction in enumerate(transactions, 1) of main
ConvertScript ==
  /\ pc = "script"
  /\ cidx <= Len(transactions)
  /\ \E h \in HashValues :
       LET out == convert_transaction(transactions[cidx], h)
       IN /\ results' = Append(results, out)
          /\ files' = IF out.t = "Saved" THEN (out.path :> out.v) @@ files ELSE files
  /\ cidx' = cidx + 1
  /\ UNCHANGED <<blob, pc, parts, idx, transactions, chunk, last>>

\* convert_raw_transactions of the app, up to its for loop
LoadApp ==
  /\ pc = "done"
  /\ Strip(blob) # ""
  /\ Contains(Strip(blob), "Transaction[")
  /\ pc' = IF Len(transactions) = 0 THEN "finished" ELSE "app"
  /\ cidx' = 1
  /\ UNCHANGED <<blob, parts, idx, transactions, chunk, last, results, files>>

\* for transaction in transactions of convert_raw_transactions
ConvertApp ==
  /\ pc = "app"
  /\ cidx <= Len(transactions)
  /\ LET out == AppConvert(transactions[cidx])
     IN /\ results' = Append(results, out)
        /\ files' = IF out.t = "Saved" THEN (out.path :> out.v) @@ files ELSE files
  /\ cidx' = cidx + 1
  /\ UNCHANGED <<blob, pc, parts, idx, transactions, chunk, last>>

\* the end of either loop
Finish ==
  /\ pc \in {"script", "app"}
  /\ cidx > Len(transactions)
  /\ pc' = "finished"
  /\ UNCHANGED <<blob, parts, idx, transactions, chunk, last, cidx, results, files>>

Next ==
  \/ ParseSingle \/ Split \/ SkipEmpty \/ ParsePart \/ Return
  \/ LoadScript \/ ConvertScript \/ LoadApp \/ ConvertApp \/ Finish

Spec == Init /\ [][Next]_vars

----------------------------------------------------------------------------
(* Properties.  chunk is the argument and last the outcome of the most     *)
(* recent call of parse_transaction_text.                                  *)

IsRecord == last.t = "Record"

\* the parsed fields of the record in last
Fields == last.v.json_full.v

HasField(k) == k \in DictKeys(Fields)

\* C1: parse_transaction_text returns a Record exactly when the trimmed
\* chunk is 'Transaction[' + content + ']' (content between the first '['
\* and the last ']') and parse_fields_from_content(content) is not empty;
\* otherwise it returns None; json_full of a Record has at least one field.
C1_RecordIffEnvelopeAndFields ==
  last.t # "NotCalled" =>
    LET text == Strip(chunk)
        envelope == StartsWith(text, "Transaction[") /\ EndsWith(text, "]") /\ Len(text) >= 13
        content == Slice(text, 13, Len(text) - 1)
    IN /\ IsRecord <=> (envelope /\ Len(parse_fields_from_content(content)) > 0)
       /\ ~IsRecord => last = Null
       /\ IsRecord => Len(Fields) > 0

\* C2: parse_transaction_text returns a Record or None for every chunk and
\* never raises, so parse_multiple_transactions is never aborted by a chunk.
C2_ParseNeverRaises == last.t \in {"NotCalled", "Null", "Record"} /\ pc # "raised"

\* the deepest bracket nesting of a text
BracketNesting(text) ==
  LET depth(i) == Cardinality({j \in 1..i : Ch(text, j) \in {"[", "{"}})
                  - Cardinality({j \in 1..i : Ch(text, j) \in {"]", "}"}})
  IN CHOOSE d \in {depth(i) : i \in 0..Len(text)} :
       \A i \in 0..Len(text) : depth(i) <= d

\* C3: the recursion of the classifier is capped: no Record comes out of a
\* chunk whose brackets nest deeper than the cap.  The parser has no cap,
\* so the property is stated for the cap MaxNest, which the envelope of a
\* chunk with a value of MaxNest levels exceeds by one.
C3_NestingCapped == IsRecord => BracketNesting(chunk) <= MaxNest

\* C4: transaction_id, timestamp and currency of a Record are the
\* stringified values of the fields id, createdAt/updatedAt and currency.
C4_DisplayFieldsAreStrings ==
  IsRecord =>
    /\ HasField("id") => last.v.transaction_id = Str(PyStr(DictGet(Fields, "id")))
    /\ "timestamp" \in DOMAIN last.v => last.v.timestamp.t = "Str"
    /\ HasField("currency") => last.v.currency = Str(PyStr(DictGet(Fields, "currency")))

\* C5: the timestamp of a Record is the value of createdAt whenever
\* createdAt is a parsed field, else the value of updatedAt when that is a
\* parsed field, and there is no timestamp when neither is.
C5_TimestampPrefersCreatedAt ==
  IsRecord =>
    /\ HasField("createdAt") =>
         "timestamp" \in DOMAIN last.v /\ last.v.timestamp = DictGet(Fields, "createdAt")
    /\ ~HasField("createdAt") /\ HasField("updatedAt") =>
         "timestamp" \in DOMAIN last.v /\ last.v.timestamp = DictGet(Fields, "updatedAt")
    /\ ~HasField("createdAt") /\ ~HasField("updatedAt") => "timestamp" \notin DOMAIN last.v

\* a Record whose createdAt and updatedAt fields differ
C5_Witness ==
  /\ IsRecord /\ HasField("createdAt") /\ HasField("updatedAt")
  /\ DictGet(Fields, "createdAt") # DictGet(Fields, "updatedAt")
  /\ last.v.timestamp = DictGet(Fields, "createdAt")

\* the substring groups of normalize_status in priority order
StatusGroups ==
  << <<{"succeeded", "success"}, "success">>,
     <<{"failed", "failure"}, "failed">>,
     <<{"pending"}, "pending">>,
     <<{"cancelled", "canceled"}, "cancelled">>,
     <<{"refunded"}, "refunded">>,
     <<{"voided"}, "voided">> >>

\* the groups with a substring in the lower-cased stringified status
MatchingGroups(status) ==
  {g \in 1..Len(StatusGroups) :
     \E sub \in StatusGroups[g][1] : Contains(Lower(PyStr(status)), sub)}

\* the canonical value of the earliest matching group, else str(status)
FirstGroupValue(status) ==
  LET m == MatchingGroups(status)
  IN IF m = {} THEN PyStr(status)
     ELSE StatusGroups[CHOOSE g \in m : \A h \in m : g <= h][2]

\* C6 as stated: the status of a Record is the canonical value of the first
\* group, in priority order, with a substring in the lower-cased stringified
\* status field, and the stringified field itself when no group matches.
C6_StatusFirstGroupWins ==
  IsRecord /\ HasField("status") =>
    last.v.status = Str(FirstGroupValue(DictGet(Fields, "status")))

\* C6 amended: as C6 for every status field that is not Null; a Null status
\* field gives 'unknown'.
C6_StatusFirstGroupWinsUnlessNull ==
  IsRecord /\ HasField("status") =>
    last.v.status = IF DictGet(Fields, "status") = Null THEN Str("unknown")
                    ELSE Str(FirstGroupValue(DictGet(Fields, "status")))

\* a status with substrings of two groups, normalised to the earlier one
C6_Witness ==
  /\ IsRecord /\ HasField("status")
  /\ MatchingGroups(DictGet(Fields, "status")) = {2, 3}
  /\ last.v.status = Str("failed")

\* digits after the decimal point kept when amounts are compared
ScaleDigits == 4

\* the decimal d as an integer number of 10^-ScaleDigits
Scaled(d) == d.m * Pow10(ScaleDigits - d.e)

\* C7: for a numeric amount field v the amount of the Record is v/100 when
\* v has no fractional part and |v| >= 100, and v otherwise; 1591 -> 15.91,
\* 100 -> 1.0, 99 -> 99, 50 -> 50, -1591 -> -15.91.
C7_AmountInCents ==
  IsRecord /\ HasField("amount") /\ DictGet(Fields, "amount").t \in {"Int", "Float"} =>
    LET src == DictGet(Fields, "amount")
        v == IF src.t = "Int" THEN src.v * Pow10(ScaleDigits) ELSE Scaled(src.v)
        whole == v % Pow10(ScaleDigits) = 0
        out == last.v.amount
    IN /\ out.t = "Float"
       /\ IF whole /\ Abs(v) >= 100 * Pow10(ScaleDigits)
          THEN 100 * Scaled(out.v) = v
          ELSE Scaled(out.v) = v
       /\ src = Int_(1591) => out = Float([m |-> 1591, e |-> 2])
       /\ src = Int_(100) => out = Float([m |-> 1, e |-> 0])
       /\ src = Int_(99) => out = Float([m |-> 99, e |-> 0])
       /\ src = Int_(50) => out = Float([m |-> 50, e |-> 0])
       /\ src = Int_(-1591) => out = Float([m |-> -1591, e |-> 2])

\* a negative whole amount of at least 100 in magnitude, divided by 100
C7_Witness ==
  /\ IsRecord /\ HasField("amount")
  /\ DictGet(Fields, "amount") = Int_(-1591)
  /\ last.v.amount = Float([m |-> -1591, e |-> 2])

\* C8: a Record has no amount when there is no amount field or when the
\* value of the amount field is not numeric.
C8_NoDefaultedAmount ==
  IsRecord /\ "amount" \in DOMAIN last.v =>
    /\ HasField("amount")
    /\ LET src == DictGet(Fields, "amount")
       IN \/ src.t \in {"Int", "Float", "Bool"}
          \/ src.t = "Str" /\ PyFloat(src.v).kind = "fin"

\* the parts of the blob once parse_multiple_transactions has split it
HasSplit == idx >= 1

Occurrences == {i \in 1..Len(blob) : HasAt(blob, i, "Transaction[")}

\* the non-empty chunks: the stripped parts that are not skipped
Chunks == SelectSeq([k \in 1..Len(parts) |-> Strip(parts[k])], LAMBDA c : c # "")

\* C9 as stated: in a blob with the literal 'Transaction[' every non-empty
\* chunk starts with the literal and there is one chunk per occurrence; a
\* blob without the literal is a single chunk.
C9_EveryChunkStartsWithLiteral ==
  HasSplit =>
    IF Occurrences # {}
    THEN /\ \A k \in 1..Len(Chunks) : StartsWith(Chunks[k], "Transaction[")
         /\ Len(Chunks) = Cardinality(Occurrences)
    ELSE parts = <<blob>>

\* C9 amended: the parts after the first one start with the literal, one
\* part per occurrence; the first part is the text in front of the first
\* occurrence, which is a further chunk when it is not blank; a blob
\* without the literal is a single part.
C9_ChunksAfterLeadStartWithLiteral ==
  HasSplit =>
    IF Occurrences # {}
    THEN /\ Len(parts) = Cardinality(Occurrences) + 1
         /\ \A k \in 2..Len(parts) :
              /\ StartsWith(parts[k], "Transaction[")
              /\ ~Contains(Slice(parts[k], 2, Len(parts[k])), "Transaction[")
         /\ ~Contains(parts[1], "Transaction[")
         /\ Join(parts, "") = blob
    ELSE parts = <<blob>>

\* two records without whitespace between them behind a non-blank lead
C9_Witness ==
  /\ HasSplit
  /\ Cardinality(Occurrences) = 2
  /\ Strip(parts[1]) # ""
  /\ Len(Chunks) = 3
  /\ EndsWith(parts[2], "]")

\* obj pruned gives out: an Object keeps exactly the keys whose original
\* value is not Null, not an empty Array and not an empty Object, in order,
\* each with its original value pruned; an Array keeps exactly its items
\* that are not Null, in order, each pruned; a scalar is unchanged
RECURSIVE Pruned(_, _)
Pruned(obj, out) ==
  IF obj.t = "Object"
  THEN LET keep == {i \in 1..Len(obj.v) :
                      obj.v[i][2] \notin {Null, Array(<<>>), Object(<<>>)}}
       IN /\ out.t = "Object"
          /\ Len(out.v) = Cardinality(keep)
          /\ \A i \in keep :
               LET j == Cardinality({h \in keep : h <= i})
               IN out.v[j][1] = obj.v[i][1] /\ Pruned(obj.v[i][2], out.v[j][2])
  ELSE IF obj.t = "Array"
  THEN LET keep == {i \in 1..Len(obj.v) : obj.v[i] # Null}
       IN /\ out.t = "Array"
          /\ Len(out.v) = Cardinality(keep)
          /\ \A i \in keep :
               Pruned(obj.v[i], out.v[Cardinality({h \in keep : h <= i})])
  ELSE out = obj

\* C10: json_compact is json_full pruned, and {a: Null, b: {x: Null}}
\* prunes to {b: {}}.
C10_RemoveNullsKeepsByOriginalValue ==
  IsRecord =>
    /\ Pruned(last.v.json_full, last.v.json_compact)
    /\ Fields = << <<"a", Null>>, <<"b", Object(<< <<"x", Null>> >>)>> >>
         => last.v.json_compact = Object(<< <<"b", Object(<<>>)>> >>)

\* a nested Object with only Null fields, kept as an empty Object
C10_Witness ==
  /\ IsRecord
  /\ Fields = << <<"a", Null>>, <<"b", Object(<< <<"x", Null>> >>)>> >>
  /\ last.v.json_compact = Object(<< <<"b", Object(<<>>)>> >>)

----------------------------------------------------------------------------
(* Properties of the classifier.  They are stated on the fields of the     *)
(* record in last and the text each of them was parsed from.               *)

\* parse_transaction_text has just returned to its caller; chunk and last
\* stay as they are in the states that follow
AtParse == pc \in {"single", "loop"}

\* the text between the brackets of the envelope of chunk
Content == TransactionMatch(Strip(chunk)).group1

\* the <<name, value text>> pairs of the chunk
Pairs == ScanFields(Content)

\* for every field of the record the value text it was parsed from
Sources ==
  LET pairs == Pairs
  IN [k \in {pairs[i][1] : i \in 1..Len(pairs)} |->
        pairs[CHOOSE i \in 1..Len(pairs) :
                pairs[i][1] = k /\ \A j \in (i + 1)..Len(pairs) : pairs[j][1] # k][2]]

\* Identifier[INNER], not an Optional/JsonNullable wrapper, with fields
TaggedForm(text) ==
  /\ NestedMatch(text).ok
  /\ ~WrapperMatch("Optional", text).ok
  /\ ~WrapperMatch("JsonNullable", text).ok
  /\ Len(parse_fields_from_content(NestedMatch(text).group2)) > 0

\* the type tag of a dict as its readers find it
HasTag(obj) == "_type" \in DictKeys(obj.v)

TypeTag(obj) == DictGet(obj.v, "_type")

\* C11: a field whose text is Identifier[INNER] (no Optional/JsonNullable
\* wrapper, parse_fields(INNER) not empty) is an Object with the tag
\* Identifier whose fields are exactly those of parse_fields(INNER), each
\* with its own parsed value, also a field named like the tag key.
C11_TaggedObjectKeepsFields ==
  IsRecord =>
    \A k \in DictKeys(Fields) :
      TaggedForm(Sources[k]) =>
        LET m == NestedMatch(Sources[k])
            pf == parse_fields_from_content(m.group2)
            obj == DictGet(Fields, k)
        IN /\ obj.t = "Object"
           /\ HasTag(obj) /\ TypeTag(obj) = Str(m.group1)
           /\ DictKeys(obj.v) \ {"_type"} = DictKeys(pf) \ {"_type"}
           /\ \A f \in DictKeys(pf) : DictGet(obj.v, f) = DictGet(pf, f)

\* a bare map literal {...}
BareMapForm(text) == StartsWith(text, "{") /\ EndsWith(text, "}")

\* C12: an Object has a type tag only when its text is TypeName[...]: the
\* field map of a Record has none, and a field whose text is a bare map
\* {...} has none, whatever the names of their fields.
C12_TagOnlyOnTaggedObjects ==
  IsRecord =>
    /\ ~HasTag(last.v.json_full)
    /\ \A k \in DictKeys(Fields) :
         BareMapForm(Sources[k]) => ~HasTag(DictGet(Fields, k))

\* the number of characters between the type name and '[value=' of a
\* text that the value_match rule takes
ValueGap(text) ==
  LET m == ValueMatch(text)
  IN Len(text) - Len(m.group1) - Len("[value=") - Len(m.group2) - Len("]")

\* C13: a field whose text is 'Identifier [value=INNER]' with one space is
\* the classification of INNER (null -> Null, true -> Bool, digits -> Int,
\* ...); a field whose text is 'Identifier[value=INNER]' without a space is
\* the tagged Object of the tagged-object rule.
C13_ValueWrapperClassifiesInner ==
  IsRecord =>
    \A k \in DictKeys(Fields) :
      LET m == ValueMatch(Sources[k])
      IN /\ m.ok /\ ValueGap(Sources[k]) = 1 =>
              DictGet(Fields, k) = parse_value_recursive(m.group2)
         /\ m.ok /\ ValueGap(Sources[k]) = 0 =>
              /\ DictGet(Fields, k).t = "Object"
              /\ DictGet(Fields, k).v =
                   DictSet(parse_fields_from_content("value=" \o m.group2),
                           "_type", Str(m.group1))

\* the text inside all the Optional[...] and JsonNullable[...] wrappers
RECURSIVE Innermost(_)
Innermost(text) ==
  IF StartsWith(text, "Optional[") /\ EndsWith(text, "]")
  THEN Innermost(Slice(text, Len("Optional[") + 1, Len(text) - 1))
  ELSE IF StartsWith(text, "JsonNullable[") /\ EndsWith(text, "]")
  THEN Innermost(Slice(text, Len("JsonNullable[") + 1, Len(text) - 1))
  ELSE text

\* an optional sign and decimal digits
IsIntLiteral(text) ==
  /\ Unsigned(text) # ""
  /\ \A i \in 1..Len(Unsigned(text)) : Ch(Unsigned(text), i) \in DigitChars

\* C14: a field whose text is a stack of Optional[...] and JsonNullable[...]
\* wrappers, in any mix and order, is Null when the innermost text is
\* 'null' in any letter case and Int(n) when it is the integer literal n;
\* Optional[JsonNullable[null]] is Null and Optional[Optional[5]] is Int(5).
C14_WrappersUnwrap ==
  AtParse /\ IsRecord =>
    LET sources == Sources
    IN \A k \in DictKeys(Fields) :
      LET src == sources[k]
          core == Innermost(src)
          val == DictGet(Fields, k)
      IN /\ core # src /\ Lower(core) = "null" => val = Null
         /\ core # src /\ IsIntLiteral(core) =>
              val = Int_(SignOf(core) * DigitsValue(Unsigned(core)))
         /\ src = "Optional[JsonNullable[null]]" => val = Null
         /\ src = "Optional[Optional[5]]" => val = Int_(5)

\* a negative integer inside two different wrappers
C14_Witness ==
  /\ IsRecord /\ HasField("w")
  /\ Sources["w"] = "Optional[JsonNullable[-12]]"
  /\ DictGet(Fields, "w") = Int_(-12)

\* the positions of the commas of text that lie outside all brackets
TopCommas(text) ==
  {i \in 1..Len(text) :
     /\ Ch(text, i) = ","
     /\ Cardinality({j \in 1..i : Ch(text, j) \in {"[", "{"}})
          = Cardinality({j \in 1..i : Ch(text, j) \in {"]", "}"}})}

\* the segments of text between the commas outside all brackets
Segments(text) ==
  LET cuts == TopCommas(text)
      n == Cardinality(cuts)
  IN [j \in 1..(n + 1) |->
        Slice(text,
              IF j = 1 THEN 1 ELSE Kth(cuts, j - 1) + 1,
              IF j = n + 1 THEN Len(text) ELSE Kth(cuts, j) - 1)]

\* the text between the brackets of an array literal
ArrayInner(text) == Strip(Slice(text, 2, Len(text) - 1))

\* an array literal '[' + inner + ']' with inner not empty
ArrayForm(text) ==
  StartsWith(text, "[") /\ EndsWith(text, "]") /\ Len(text) >= 2 /\ ArrayInner(text) # ""

\* C15: a field whose text is an array literal with non-empty inner is an
\* Array with one item per segment of inner between the commas outside all
\* brackets, in order, each the classification of its segment: an empty
\* segment is a Null item, and there are (number of such commas + 1) items.
C15_ArrayItemPerSegment ==
  IsRecord =>
    \A k \in DictKeys(Fields) :
      ArrayForm(Sources[k]) =>
        LET segs == Segments(ArrayInner(Sources[k]))
            val == DictGet(Fields, k)
        IN /\ val.t = "Array"
           /\ Len(val.v) = Len(segs)
           /\ \A j \in 1..Len(segs) : val.v[j] = parse_value_recursive(segs[j])

----------------------------------------------------------------------------
(* Properties of the conversion.  results[i] is the outcome of converting  *)
(* transactions[i]; files are the files written.                           *)

RequiredKeys == {"timestamp", "transaction_id", "status"}

\* TXN- and five digits
IsSynthesizedId(id) ==
  id.t = "Str" /\ Len(id.v) = 9 /\ StartsWith(id.v, "TXN-") /\ AllDigits(Slice(id.v, 5, 9))

\* C16: on both conversion paths every file written has a timestamp, a
\* transaction_id and a status; a record without timestamp is skipped; a
\* record with a timestamp that parses and no transaction_id is written
\* with an id TXN-#####; a record without status is written with the
\* status 'unknown'.
C16_PersistedHaveRequiredFields ==
  /\ \A path \in DOMAIN files : RequiredKeys \subseteq DOMAIN files[path]
  /\ \A i \in 1..Len(results) :
       LET transaction == transactions[i]
           out == results[i]
       IN /\ out.t = "Saved" => RequiredKeys \subseteq DOMAIN out.v
          /\ "timestamp" \notin DOMAIN transaction => out.t = "Skipped"
          /\ /\ "timestamp" \in DOMAIN transaction
             /\ "transaction_id" \notin DOMAIN transaction
             /\ parse_timestamp(transaction.timestamp).ok
             => out.t = "Saved" /\ IsSynthesizedId(out.v.transaction_id)
          /\ "status" \notin DOMAIN transaction /\ out.t = "Saved"
             => out.v.status = Str("unknown")

----------------------------------------------------------------------------
(* Properties of the field scanner and of the pruning *)

\* the position of the first '=' of a segment that lies outside all
\* brackets (Len + 1 if there is none)
FirstEquals(seg) ==
  LET eqs == {i \in 1..Len(seg) :
                /\ Ch(seg, i) = "="
                /\ Cardinality({j \in 1..i : Ch(seg, j) \in {"[", "{"}})
                     = Cardinality({j \in 1..i : Ch(seg, j) \in {"]", "}"}})}
  IN IF eqs = {} THEN Len(seg) + 1 ELSE CHOOSE i \in eqs : \A j \in eqs : i <= j

\* the trimmed field name and the value text of a segment
SegName(seg) == Strip(Slice(seg, 1, FirstEquals(seg) - 1))

SegValue(seg) == Slice(seg, FirstEquals(seg) + 1, Len(seg))

\* C17: the keys of parse_fields_from_content(content) are exactly the
\* non-empty trimmed names of the segments of content between the commas
\* outside all brackets (the name is the text before the first '=' outside
\* all brackets); a segment with an empty name adds nothing, and a name of
\* several segments has the classified value of the last of them.
C17_FieldsLastSegmentWins ==
  AtParse /\ last.t \in {"Null", "Record"} /\ TransactionMatch(Strip(chunk)).ok =>
    LET segs == Segments(Content)
        n == Len(segs)
        name == [j \in 1..n |-> SegName(segs[j])]
        names == {name[j] : j \in 1..n} \ {""}
        fields == IF IsRecord THEN Fields ELSE <<>>
    IN /\ DictKeys(fields) = names
       /\ \A k \in names :
            LET j == CHOOSE i \in 1..n : name[i] = k /\ \A h \in (i + 1)..n : name[h] # k
            IN DictGet(fields, k) = parse_value_recursive(SegValue(segs[j]))

\* two segments with the same name: the value of the second is kept
C17_Witness ==
  /\ IsRecord
  /\ LET segs == Segments(Content)
     IN /\ Len(segs) = 2
        /\ SegName(segs[1]) = "id" /\ SegName(segs[2]) = "id"
        /\ SegValue(segs[1]) # SegValue(segs[2])
        /\ Fields = << <<"id", parse_value_recursive(SegValue(segs[2]))>> >>

\* no Object in val, val included, has a Null field value and no Array in
\* it has a Null item
RECURSIVE NoNull(_)
NoNull(val) ==
  IF val.t = "Object"
  THEN \A i \in 1..Len(val.v) : val.v[i][2] # Null /\ NoNull(val.v[i][2])
  ELSE IF val.t = "Array"
  THEN \A i \in 1..Len(val.v) : val.v[i] # Null /\ NoNull(val.v[i])
  ELSE TRUE

\* C18: json_compact of a Record has no Null at any depth.
C18_CompactHasNoNull == IsRecord => NoNull(last.v.json_compact)

\* Nulls in an Array and in an Object inside it, all pruned
C18_Witness ==
  /\ IsRecord
  /\ Fields = << <<"c", Array(<<Int_(1), Null, Object(<< <<"y", Null>> >>), Array(<<>>)>>)>> >>
  /\ last.v.json_compact =
       Object(<< <<"c", Array(<<Int_(1), Object(<<>>), Array(<<>>)>>)>> >>)

====
